---- MODULE Spec2Model ----
(***************************************************************************)
(* Device layer of Cantata: the audio CD device (devices/audiocddevice.cpp)*)
(* and the USB mass-storage device (umsdevice.cpp).                        *)
(*                                                                         *)
(* Three specifications share the module:                                  *)
(*   SpecCopy  the extraction pipeline of AudioCdDevice: copySongTo,       *)
(*             percent, copySongToResult, toggle, the abort request and    *)
(*             the extraction jobs;                                        *)
(*   SpecDisc  the disc metadata of AudioCdDevice: setDetails, cdMatches,  *)
(*             rescan, totalTime, autoplay, setCover and the answers of    *)
(*             the lookup service;                                         *)
(*   SpecUms   the settings file of UmsDevice: setup, saveOptions,         *)
(*             connectionStateChanged.                                     *)
(* Each handler is one action.  `emitted' holds what the last handler sent *)
(* out, in order: the signals it emitted and the calls it made on its      *)
(* collaborators (the drive, the play queue, a job, the cover service).    *)
(* `last' names the last handler and its arguments.                        *)
(***************************************************************************)
EXTENDS Integers, Sequences, FiniteSets, Bags, TLC

VARIABLES
    \* ---- AudioCdDevice, extraction pipeline
    drive,              \* AudioCdDevice::drive is non-null
    fixVa,              \* opts.fixVariousArtists
    library,            \* songs of the managed (MPD) collection
    encoderCodec,       \* Encoders::getEncoder(...).codec for the configured codec
    dirs,               \* the directories that exist under the collection root
    canCreateDirs,      \* Utils::createWorldReadableDir succeeds
    jobAbortRequested,  \* Device::jobAbortRequested
    needToFixVa,        \* Device::needToFixVa
    currentDestFile,    \* Device::currentDestFile
    currentSong,        \* Device::currentSong
    jobs,               \* the ExtractJob objects that exist: a bag of jobs
    files,              \* the destination files on disk: does the file exist
    \* ---- AudioCdDevice, disc metadata
    cd,                 \* the metadata fields of the AudioCdDevice object
    pending,            \* lookup(bool) signals the service has not answered
    covers,             \* the cover files on disk and whether the CD-cover cache directory exists
    \* ---- UmsDevice
    ums,                \* the fields of the UmsDevice object
    disk,               \* the mounted file system of the UMS device
    \* ---- observation
    emitted,            \* signals and outgoing calls of the last handler, in order
    last                \* the last handler

copyVars == <<drive, fixVa, library, encoderCodec, dirs, canCreateDirs,
              jobAbortRequested, needToFixVa, currentDestFile, currentSong,
              jobs, files>>
discVars == <<cd, pending, covers>>
umsVars  == <<ums, disk>>
vars     == <<copyVars, discVars, umsVars, emitted, last>>

Signal(name, value) == [sig |-> name, val |-> value]

(***************************************************************************)
(* Bounds of the model.                                                    *)
(***************************************************************************)
MaxJobs == 2        \* ExtractJob objects alive at once

(***************************************************************************)
(* Songs, the managed collection and the various-artists normalisation.    *)
(***************************************************************************)
VariousArtists == "Various Artists"

SongVa    == [artist |-> "Alice", albumartist |-> VariousArtists,
              title |-> <<"Tune">>, file |-> <<"cdda", "1">>]
SongPlain == [artist |-> "Bob", albumartist |-> "Bob",
              title |-> <<"Tune">>, file |-> <<"cdda", "2">>]
NoSong    == [artist |-> "", albumartist |-> "", title |-> <<>>, file |-> <<>>]

isVariousArtists(s) == s.albumartist = VariousArtists

\* Device::fixVariousArtists / Song::fixVariousArtists: the track artist moves
\* into the title and the artist becomes the album artist.
fixVariousArtists(s) ==
    IF isVariousArtists(s)
    THEN [s EXCEPT !.title = <<s.artist, " - ">> \o s.title, !.artist = s.albumartist]
    ELSE s

\* Song::revertVariousArtists: when the artist equals the album artist, the real
\* artist is the part of the title before " - ".
revertVariousArtists(s) ==
    IF s.artist = s.albumartist /\ Len(s.title) > 2 /\ s.title[2] = " - "
    THEN [s EXCEPT !.artist = s.title[1], !.title = SubSeq(s.title, 3, Len(s.title))]
    ELSE s

\* The MPD library: it holds the plain song, and the various-artists song in
\* its normalised form only.
Libraries == {{fixVariousArtists(SongVa), SongPlain}}

\* MpdLibraryModel::songExists compares the song's identity, not its file.
songExists(s) ==
    \E m \in library : /\ m.artist = s.artist
                       /\ m.albumartist = s.albumartist
                       /\ m.title = s.title

(***************************************************************************)
(* Destination paths.  A path is the sequence of its parts: the collection *)
(* root, the directory, the file stem and the extension.                   *)
(***************************************************************************)
BaseDir    == "/music/"
EncoderExt == ".ogg"

\* The copy requests the callers make: a song with the path its naming scheme gives.
CopyRequests == {[s |-> SongVa,    musicPath |-> <<"Alice/", "tune", ".wav">>],
                 [s |-> SongPlain, musicPath |-> <<"Bob/", "tune", ".wav">>]}

\* Encoders::Encoder::changeExtension(baseDir+musicPath)
changeExtension(path) == SubSeq(path, 1, Len(path) - 1) \o <<EncoderExt>>
destFile(musicPath)   == changeExtension(<<BaseDir>> \o musicPath)
DestFiles             == {destFile(r.musicPath) : r \in CopyRequests}
NoFile                == <<>>
\* Utils::getDir: the path without the file name
getDir(path)          == SubSeq(path, 1, Len(path) - 2)

\* QString::mid(baseDir.length()) on a path that starts with the base dir
midBaseDir(path) == SubSeq(path, 2, Len(path))
\* Song::encodePath, used for Mopidy servers
encodePath(path) == <<"mopidy:">> \o path

(***************************************************************************)
(* Extraction jobs (ExtractJob / FileJob).  A job is queued by start() and *)
(* running once its thread writes the file (FileJob::wasStarted).         *)
(* abortSeen notes that abortJob was called while the job existed.         *)
(***************************************************************************)
Job(st, dest, abortSeen) == [st |-> st, dest |-> dest, abortSeen |-> abortSeen]
JobKinds == [st : {"queued", "running"}, dest : DestFiles, abortSeen : BOOLEAN]
addJob(bag, job)    == bag (+) SetToBag({job})
removeJob(bag, job) == bag (-) SetToBag({job})

\* Device::isConnected for the CD device: the drive handle is valid.
isConnected == drive

(***************************************************************************)
(* AudioCdDevice::copySongTo                                               *)
(***************************************************************************)
\* (variant: the checked copy is not normalised)
checkSongUnfixed(s) == s

\* Song check=s; if (needToFixVa) Device::fixVariousArtists(QString(), check, false)
checkSong(s) == IF fixVa /\ isVariousArtists(s) THEN fixVariousArtists(s) ELSE s

\* (variant: the encoder is looked up before the collection)
copySongToStatusEncoderFirst(s, dest, overwrite) ==
    IF ~isConnected THEN "NotConnected"
    ELSE IF encoderCodec = "" THEN "CodecNotAvailable"
    ELSE IF ~overwrite /\ songExists(checkSong(s)) THEN "SongExists"
    ELSE IF getDir(dest) \notin dirs /\ ~canCreateDirs THEN "DirCreationFaild"
    ELSE "Start"

\* The checks of copySongTo in the order of the code; "Start" when all pass.
copySongToStatus(s, dest, overwrite) ==
    IF ~isConnected THEN "NotConnected"
    ELSE IF ~overwrite /\ songExists(checkSong(s)) THEN "SongExists"
    ELSE IF encoderCodec = "" THEN "CodecNotAvailable"
    ELSE IF getDir(dest) \notin dirs /\ ~canCreateDirs THEN "DirCreationFaild"
    ELSE "Start"

\* copyCover only selects the cover file name handed to the job; it is not a
\* parameter here.
copySongTo(s, musicPath, overwrite) ==
    LET dest   == destFile(musicPath)
        status == copySongToStatus(s, dest, overwrite)
    IN  /\ status = "Start" => BagCardinality(jobs) < MaxJobs
        /\ jobAbortRequested' = FALSE
        /\ needToFixVa' = IF isConnected THEN fixVa /\ isVariousArtists(s)
                          ELSE needToFixVa
        /\ currentDestFile' = IF status \in {"DirCreationFaild", "Start"} THEN dest
                              ELSE currentDestFile
        /\ dirs' = IF status = "Start" THEN dirs \cup {getDir(dest)} ELSE dirs
        /\ IF status = "Start"
           THEN /\ currentSong' = s
                /\ jobs' = addJob(jobs, Job("queued", dest, FALSE))
                /\ emitted' = <<>>
           ELSE /\ emitted' = <<Signal("actionStatus", <<status, FALSE>>)>>
                /\ UNCHANGED <<currentSong, jobs>>
        /\ last' = [op |-> "copySongTo", s |-> s, musicPath |-> musicPath,
                    overwrite |-> overwrite, before |-> BagCardinality(jobs)]
        /\ UNCHANGED <<drive, fixVa, library, encoderCodec, canCreateDirs, files>>
        /\ UNCHANGED <<discVars, umsVars>>

(***************************************************************************)
(* The extraction job's own steps and Device::abortJob.                    *)
(***************************************************************************)
\* FileJob::start has queued the job; its thread begins to write the file.
jobRun(job) ==
    /\ BagIn(job, jobs)
    /\ job.st = "queued"
    /\ jobs' = addJob(removeJob(jobs, job), [job EXCEPT !.st = "running"])
    /\ files' = [files EXCEPT ![job.dest] = TRUE]
    /\ emitted' = <<>>
    /\ last' = [op |-> "jobRun"]
    /\ UNCHANGED <<drive, fixVa, library, encoderCodec, dirs, canCreateDirs,
                   jobAbortRequested, needToFixVa, currentDestFile, currentSong>>
    /\ UNCHANGED <<discVars, umsVars>>

\* Every job of the bag with abortSeen set.
RECURSIVE markAbortSeen(_)
markAbortSeen(bag) ==
    IF bag = EmptyBag THEN EmptyBag
    ELSE LET job == CHOOSE x \in BagToSet(bag) : TRUE
         IN  addJob(markAbortSeen(removeJob(bag, job)), [job EXCEPT !.abortSeen = TRUE])

\* Device::abortJob: the abort flag of the device is set.
abortJob ==
    /\ jobAbortRequested' = TRUE
    /\ jobs' = markAbortSeen(jobs)
    /\ emitted' = <<>>
    /\ last' = [op |-> "abortJob"]
    /\ UNCHANGED <<drive, fixVa, library, encoderCodec, dirs, canCreateDirs,
                   needToFixVa, currentDestFile, currentSong, files>>
    /\ UNCHANGED <<discVars, umsVars>>

(***************************************************************************)
(* AudioCdDevice::percent                                                  *)
(***************************************************************************)
\* (variant: the final 100% is swallowed too)
percentSwallowedAlways(pc) == jobAbortRequested

\* if (jobAbortRequested && 100!=pc)
percentSwallowed(pc) == jobAbortRequested /\ pc # 100

Percents == {50, 100}

\* The sender is a running job; job->stop() is recorded as the call "stop".
percent(job, pc) ==
    /\ BagIn(job, jobs)
    /\ job.st = "running"
    /\ emitted' = IF percentSwallowed(pc) THEN <<Signal("stop", <<job.dest>>)>>
                  ELSE <<Signal("progress", <<pc>>)>>
    /\ last' = [op |-> "percent", job |-> job, pc |-> pc]
    /\ UNCHANGED copyVars
    /\ UNCHANGED <<discVars, umsVars>>

(***************************************************************************)
(* AudioCdDevice::copySongToResult                                         *)
(***************************************************************************)
Statuses == {"Ok", "Failed"}

\* The files after the handler: an abort removes currentDestFile when the
\* sending job was started and the file exists.
filesAfterResult(fs, wasStarted) ==
    IF jobAbortRequested /\ wasStarted /\ currentDestFile \in DOMAIN fs
       /\ fs[currentDestFile]
    THEN [fs EXCEPT ![currentDestFile] = FALSE]
    ELSE fs

\* (variant: the pending abort is not looked at)
resultSignalsIgnoringAbort(status, coverCopied) ==
    IF status # "Ok" THEN <<Signal("actionStatus", <<status, FALSE>>)>>
    ELSE <<Signal("actionStatus", <<"Ok", coverCopied>>)>>

\* The signals of the handler.
resultSignals(status, coverCopied) ==
    IF jobAbortRequested THEN <<>>
    ELSE IF status # "Ok" THEN <<Signal("actionStatus", <<status, FALSE>>)>>
    ELSE <<Signal("actionStatus", <<"Ok", coverCopied>>)>>

\* currentSong after the handler.
songAfterResult(status, mopidy) ==
    IF jobAbortRequested \/ status # "Ok" THEN currentSong
    ELSE LET rel  == midBaseDir(currentDestFile)
             f    == IF mopidy THEN encodePath(rel) ELSE rel
             song == [currentSong EXCEPT !.file = f]
         IN  IF needToFixVa THEN revertVariousArtists(song) ELSE song

\* The job delivers result(status): Ok only from a job that ran and wrote its file.
copySongToResult(job, status, coverCopied, mopidy) ==
    /\ BagIn(job, jobs)
    /\ status = "Ok" => job.st = "running"
    /\ coverCopied => status = "Ok"
    /\ files' = filesAfterResult(files, job.st = "running")
    /\ jobs' = removeJob(jobs, job)
    /\ emitted' = resultSignals(status, coverCopied)
    /\ currentSong' = songAfterResult(status, mopidy)
    /\ last' = [op |-> "copySongToResult", job |-> job, status |-> status,
                coverCopied |-> coverCopied, mopidy |-> mopidy]
    /\ UNCHANGED <<drive, fixVa, library, encoderCodec, dirs, canCreateDirs,
                   jobAbortRequested, needToFixVa, currentDestFile>>
    /\ UNCHANGED <<discVars, umsVars>>

(***************************************************************************)
(* AudioCdDevice::toggle and AudioCdDevice::stop                           *)
(***************************************************************************)
\* void AudioCdDevice::stop() { }
stop == UNCHANGED <<jobAbortRequested, jobs>>

\* drive->eject() and PlayQueueModel::removeCantataStreams(true) are calls on
\* the drive and on the play queue.
toggle ==
    /\ IF drive
       THEN /\ stop
            /\ emitted' = <<Signal("eject", <<>>),
                            Signal("removeCantataStreams", <<TRUE>>)>>
       ELSE /\ emitted' = <<>>
            /\ UNCHANGED <<jobAbortRequested, jobs>>
    /\ last' = [op |-> "toggle", active |-> BagCardinality(jobs)]
    /\ UNCHANGED <<drive, fixVa, library, encoderCodec, dirs, canCreateDirs,
                   needToFixVa, currentDestFile, currentSong, files>>
    /\ UNCHANGED <<discVars, umsVars>>

(***************************************************************************)
(* AudioCdDevice, disc metadata.                                           *)
(*                                                                         *)
(* `cd' is the AudioCdDevice object: one field per member the handlers     *)
(* below read or write.  childItems is the song subtree of the device;     *)
(* the `update' root that setDetails builds is installed as the subtree    *)
(* while setDetails emits updating(id, false), before it reads childItems  *)
(* again in playTracks/updateDetails.                                      *)
(***************************************************************************)
MaxPending == 2     \* lookup(bool) signals not yet answered by the service
MaxMatches == 2     \* candidates in one matches(...) answer

\* The quint32 0xFFFFFFFF of `time'.  TLC's integers are 32-bit signed, so the
\* value is written as its residue modulo 2^32; the sums of track durations the
\* model forms stay far below 2^31 and never meet it.
TimeNotComputed     == -1
constBytesPerSecond == 44100 * 4

id == "udi:sr0"     \* Device::id()

Track(file, time) == [file |-> <<file>>, time |-> time, size |-> 0]
\* The longest track a disc can hold: the table of contents addresses the disc
\* in minutes:seconds:frames up to 99:59:74.
MaxTrackSeconds == 5999
Toc == <<Track("1", 180), Track("2", MaxTrackSeconds)>>

DefaultAlbum ==
    [name |-> "Audio CD", artist |-> "Unknown", composer |-> "", genre |-> "",
     year |-> 0, disc |-> 0, tracks |-> Toc, isDefault |-> TRUE]
AlbumA ==
    [name |-> "Abbey Road", artist |-> "The Beatles", composer |-> "",
     genre |-> "Rock", year |-> 1969, disc |-> 1, tracks |-> Toc,
     isDefault |-> FALSE]
AlbumB ==
    [name |-> "Blue", artist |-> "Joni Mitchell", composer |-> "Joni Mitchell",
     genre |-> "Folk", year |-> 1971, disc |-> 0,
     tracks |-> <<Track("1", 180)>>, isDefault |-> FALSE]
\* Details without any track: setDetails takes any CdAlbum, and playTracks and
\* updateDetails provide for an empty track list.
EmptyAlbum ==
    [name |-> "Untitled", artist |-> "Unknown", composer |-> "", genre |-> "",
     year |-> 0, disc |-> 0, tracks |-> <<>>, isDefault |-> FALSE]
Albums     == {DefaultAlbum, AlbumA, AlbumB, EmptyAlbum}    \* arguments of setDetails
Candidates == {AlbumA, AlbumB}                  \* what a service may send as a match
MatchLists == UNION {[1..n -> Candidates] : n \in 0..MaxMatches}

\* Covers::Image: the image (null or not) and the file it was loaded from.
NoImage     == [img |-> "null", fileName |-> <<>>]
CachedCover == [img |-> "pixels", fileName |-> <<"cache/cdda/", "cover.jpg">>]
Images      == {NoImage, CachedCover}
\* A cover file outside the cache, as Covers::cover may name one.
UserCover   == [img |-> "pixels", fileName |-> <<"/home/user/", "cover.jpg">>]
CoverImages == Images \cup {UserCover}

\* The cover files on disk.  A file in the cache directory is there only
\* once the cover service has created the directory and stored it.
NoCovers == [cacheDirExists |-> FALSE, files |-> {UserCover.fileName}]
CoverStores ==
    {NoCovers,
     [cacheDirExists |-> TRUE, files |-> {UserCover.fileName}],
     [cacheDirExists |-> TRUE, files |-> {UserCover.fileName, CachedCover.fileName}]}
\* What Covers::requestImage can return: a cached cover only if it is stored.
canReturn(img) == img # NoImage => img.fileName \in covers.files

\* The object exists until its destructor has run.
alive == last.op # "~AudioCdDevice"

RECURSIVE sumTime(_)
sumTime(songs) ==
    IF songs = <<>> THEN 0 ELSE songs[1].time + sumTime(Tail(songs))

\* cddb and mb tell whether the service object exists; lookupTo holds the
\* services whose lookup(bool) slot is connected to the device's lookup signal
\* (a connection lasts as long as the service).
connectServiceKeepsOther(d, useCddb) ==
    [d EXCEPT !.cddb = d.cddb \/ useCddb,
              !.mb   = d.mb \/ ~useCddb,
              !.lookupTo = d.lookupTo \cup {IF useCddb THEN "cddb" ELSE "mb"}]
connectService(d, useCddb) ==
    LET cddb1 == IF d.cddb /\ ~useCddb THEN FALSE ELSE d.cddb
        mb1   == IF d.mb /\ useCddb THEN FALSE ELSE d.mb
        to1   == (d.lookupTo \ (IF d.cddb /\ ~useCddb THEN {"cddb"} ELSE {}))
                    \ (IF d.mb /\ useCddb THEN {"mb"} ELSE {})
    IN  [d EXCEPT !.cddb = IF ~cddb1 /\ useCddb THEN TRUE ELSE cddb1,
                  !.mb   = IF ~mb1 /\ ~useCddb THEN TRUE ELSE mb1,
                  !.lookupTo = (to1 \cup (IF ~cddb1 /\ useCddb THEN {"cddb"} ELSE {}))
                                   \cup (IF ~mb1 /\ ~useCddb THEN {"mb"} ELSE {})]

\* The object the constructor leaves.
newAudioCdDevice(device, useCddb) ==
    LET d0 == [device |-> device, devPath |-> <<>>, cddb |-> FALSE, mb |-> FALSE,
               album |-> "", artist |-> "", composer |-> "", genre |-> "",
               year |-> 0, disc |-> 0, time |-> TimeNotComputed,
               lookupInProcess |-> FALSE, autoPlay |-> FALSE,
               coverImage |-> NoImage, data |-> "",
               detailsString |-> <<"", 0, 0>>, statusMessage |-> <<"", 0, 0>>,
               childItems |-> <<>>, lookupTo |-> {}]
    IN  IF device # ""
        THEN [connectService(d0, useCddb) EXCEPT
                 !.devPath = <<"cdda://", device, "/">>,
                 !.detailsString = <<"Reading disc", 0, 0>>,
                 !.statusMessage = <<"Reading disc", 0, 0>>,
                 !.lookupInProcess = TRUE]
        ELSE d0

\* The songs of the subtree with file = path() + song.file, as playTracks and
\* updateDetails collect them.
tracksOf(d) ==
    [i \in 1..Len(d.childItems) |->
        [d.childItems[i] EXCEPT !.file = d.devPath \o d.childItems[i].file]]
playTracks(d) ==
    IF tracksOf(d) # <<>> THEN <<Signal("play", <<tracksOf(d)>>)>> ELSE <<>>
updateDetails(d) ==
    IF tracksOf(d) # <<>> THEN <<Signal("updatedDetails", <<tracksOf(d)>>)>> ELSE <<>>

\* a * b as the C++ int (32 bits, two's complement) that s.time *
\* constBytesPerSecond is, for 0 <= a < 2^16 (Song::time is a quint16) and
\* 0 <= b < 2^31.  The product is formed from 8-bit digits of b so that no
\* intermediate value leaves the range of the result.
mulInt(a, b) ==
    LET p0   == a * (b % 256)
        p1   == a * ((b \div 256) % 256)
        p2   == a * ((b \div 65536) % 256)
        p3   == a * (b \div 16777216)
        s0   == p0 + (p1 % 256) * 256
        lo16 == s0 % 65536
        hi16 == ((s0 \div 65536) + (p1 \div 256) + p2 + (p3 % 256) * 256) % 65536
    IN  IF hi16 >= 32768 THEN (hi16 - 65536) * 65536 + lo16
                         ELSE hi16 * 65536 + lo16

\* The subtree setDetails builds from the album's track list.
updateOfSamples(a) ==
    [i \in 1..Len(a.tracks) |->
        [a.tracks[i] EXCEPT !.size = mulInt(a.tracks[i].time, 44100)]]
updateOf(a) ==
    [i \in 1..Len(a.tracks) |->
        [a.tracks[i] EXCEPT !.size = mulInt(a.tracks[i].time, constBytesPerSecond)]]

\* Mutation of setDetails used to test the claim about the cover request.
setDetailsOutAsksAgain(d, a, img) ==
    LET d1 == [d EXCEPT !.lookupInProcess = FALSE,
                        !.data = a.artist,
                        !.album = a.name,
                        !.artist = a.artist,
                        !.composer = a.composer,
                        !.genre = a.genre,
                        !.year = a.year,
                        !.disc = a.disc,
                        !.statusMessage = <<"", 0, 0>>,
                        !.detailsString = <<"Tracks", Len(a.tracks), sumTime(a.tracks)>>,
                        !.childItems = updateOf(a)]
        askCover == ~a.isDefault
        gotCover == askCover /\ img.img # "null"
        d2 == IF gotCover THEN [d1 EXCEPT !.coverImage = img] ELSE d1
        d3 == [d2 EXCEPT !.autoPlay = FALSE]
    IN  [cd      |-> d3,
         emitted |-> <<Signal("updating", <<id, FALSE>>)>>
                     \o (IF askCover
                         THEN <<Signal("requestImage", <<a.artist, a.name>>)>>
                         ELSE <<>>)
                     \o (IF gotCover THEN <<Signal("updateStatus", <<>>)>> ELSE <<>>)
                     \o (IF d.autoPlay THEN playTracks(d3) ELSE updateDetails(d3))]

\* setDetails(a) on the object d; img is what Covers::requestImage returns when
\* it is asked.  The result is the object afterwards and what was sent out.
setDetailsOut(d, a, img) ==
    LET differentAlbum == d.album # a.name \/ d.artist # a.artist
        d1 == [d EXCEPT !.lookupInProcess = FALSE,
                        !.data = a.artist,
                        !.album = a.name,
                        !.artist = a.artist,
                        !.composer = a.composer,
                        !.genre = a.genre,
                        !.year = a.year,
                        !.disc = a.disc,
                        !.statusMessage = <<"", 0, 0>>,
                        !.detailsString = <<"Tracks", Len(a.tracks), sumTime(a.tracks)>>,
                        !.childItems = updateOf(a)]
        askCover == differentAlbum /\ ~a.isDefault
        gotCover == askCover /\ img.img # "null"
        d2 == IF gotCover THEN [d1 EXCEPT !.coverImage = img] ELSE d1
        d3 == [d2 EXCEPT !.autoPlay = FALSE]
    IN  [cd      |-> d3,
         emitted |-> <<Signal("updating", <<id, FALSE>>)>>
                     \o (IF askCover
                         THEN <<Signal("requestImage", <<a.artist, a.name>>)>>
                         ELSE <<>>)
                     \o (IF gotCover THEN <<Signal("updateStatus", <<>>)>> ELSE <<>>)
                     \o (IF d.autoPlay THEN playTracks(d3) ELSE updateDetails(d3))]

setDetails(a, img) ==
    /\ alive /\ canReturn(img)
    /\ cd' = setDetailsOut(cd, a, img).cd
    /\ emitted' = setDetailsOut(cd, a, img).emitted
    /\ last' = [op |-> "setDetails", a |-> a, img |-> img]
    /\ UNCHANGED <<pending, covers>>
    /\ UNCHANGED <<copyVars, umsVars>>

\* Mutations of cdMatches used to test the claims about it.
cdMatchesOutNeverApplies(d, albums, img) ==
    LET d1 == [d EXCEPT !.lookupInProcess = FALSE]
    IN  IF Len(albums) >= 1
        THEN [cd |-> d1, emitted |-> <<Signal("matches", <<id, albums>>)>>]
        ELSE [cd |-> d1, emitted |-> <<>>]
cdMatchesOutAppliesFirst(d, albums, img) ==
    LET d1 == [d EXCEPT !.lookupInProcess = FALSE]
    IN  IF Len(albums) >= 1
        THEN setDetailsOut(d1, albums[1], img)
        ELSE [cd |-> d1, emitted |-> <<>>]
cdMatchesOut(d, albums, img) ==
    LET d1 == [d EXCEPT !.lookupInProcess = FALSE]
    IN  IF Len(albums) = 1
        THEN setDetailsOut(d1, albums[1], img)
        ELSE IF Len(albums) > 1
        THEN [cd |-> d1, emitted |-> <<Signal("matches", <<id, albums>>)>>]
        ELSE [cd |-> d1, emitted |-> <<>>]

\* The service answers one lookup with its list of matches.
cdMatches(albums, img) ==
    /\ alive /\ canReturn(img)
    /\ pending > 0
    /\ pending' = pending - 1
    /\ cd' = cdMatchesOut(cd, albums, img).cd
    /\ emitted' = cdMatchesOut(cd, albums, img).emitted
    /\ last' = [op |-> "cdMatches", albums |-> albums, img |-> img]
    /\ UNCHANGED covers
    /\ UNCHANGED <<copyVars, umsVars>>

\* The service answers one lookup with error(QString), which the device
\* forwards as its own error signal.
serviceError ==
    /\ alive
    /\ pending > 0
    /\ pending' = pending - 1
    /\ emitted' = <<Signal("error", <<"lookup failed">>)>>
    /\ last' = [op |-> "serviceError"]
    /\ UNCHANGED <<cd, covers>>
    /\ UNCHANGED <<copyVars, umsVars>>

rescan(useCddb) ==
    /\ alive
    /\ cd.device # "" => pending < MaxPending
    /\ IF cd.device # ""
       THEN /\ cd' = [connectService(cd, useCddb) EXCEPT !.lookupInProcess = TRUE]
            /\ emitted' = <<Signal("lookup", <<TRUE>>)>>
            /\ pending' = pending + 1
       ELSE /\ emitted' = <<>>
            /\ UNCHANGED <<cd, pending>>
    /\ last' = [op |-> "rescan", useCddb |-> useCddb]
    /\ UNCHANGED covers
    /\ UNCHANGED <<copyVars, umsVars>>

totalTimeOf(d) ==
    IF d.time = TimeNotComputed THEN sumTime(d.childItems) ELSE d.time

totalTime ==
    /\ alive
    /\ cd' = [cd EXCEPT !.time = totalTimeOf(cd)]
    /\ emitted' = <<>>
    /\ last' = [op |-> "totalTime", result |-> totalTimeOf(cd)]
    /\ UNCHANGED <<pending, covers>>
    /\ UNCHANGED <<copyVars, umsVars>>

autoplay ==
    /\ alive
    /\ IF Len(cd.childItems) > 0
       THEN /\ emitted' = playTracks(cd)
            /\ UNCHANGED cd
       ELSE /\ cd' = [cd EXCEPT !.autoPlay = TRUE]
            /\ emitted' = <<>>
    /\ last' = [op |-> "autoplay"]
    /\ UNCHANGED <<pending, covers>>
    /\ UNCHANGED <<copyVars, umsVars>>

\* Covers::cover(song, img, file): the cover service delivers a cover for the
\* album a; cdda tells whether the song it names is a CD track.  A cover it
\* has downloaded is in the cache directory by then.
setCover(a, cdda, img) ==
    /\ alive
    /\ IF cdda /\ a.artist = cd.artist /\ a.name = cd.album
       THEN /\ cd' = [cd EXCEPT !.coverImage = img]
            /\ emitted' = <<Signal("updateStatus", <<>>)>>
       ELSE /\ emitted' = <<>>
            /\ UNCHANGED cd
    /\ covers' = IF img = CachedCover
                 THEN [cacheDirExists |-> TRUE,
                       files |-> covers.files \cup {img.fileName}]
                 ELSE covers
    /\ last' = [op |-> "setCover", cdda |-> cdda]
    /\ UNCHANGED pending
    /\ UNCHANGED <<copyVars, umsVars>>

(***************************************************************************)
(* UmsDevice: the settings file <mount-root>/.is_audio_player.             *)
(*                                                                         *)
(* A string is a sequence of tokens; "=" , "/" , "." and " " are tokens of *)
(* their own, so that startsWith, section, mid, trimmed and the path       *)
(* clean-up work on the text as the code's QString calls do.  A file is    *)
(* the sequence of its lines.  `ums' is the UmsDevice object, `disk' the   *)
(* medium: whether it is mounted, its mount path as FreeSpaceInfo reports  *)
(* it, the folders under the mount root, the settings file and the         *)
(* secondary Cantata settings file.                                        *)
(***************************************************************************)
MaxUnused == 4      \* lines held in unusedParams

constMusicFolderKey         == "audio_folder"
constCollectionNameKey      == "collection_name"
constMusicFilenameSchemeKey == "music_filenamescheme"
constVfatSafeKey            == "vfat_safe"
constAsciiOnlyKey           == "ascii_only"
constIgnoreTheKey           == "ignore_the"
constReplaceSpacesKey       == "replace_spaces"
constDefCoverFileName       == <<"cover.jpg">>
Keys == {constMusicFolderKey, constMusicFilenameSchemeKey, constVfatSafeKey,
         constAsciiOnlyKey, constIgnoreTheKey, constReplaceSpacesKey,
         constCollectionNameKey}

\* QString helpers.
startsWith(s, prefix) == Len(s) >= Len(prefix) /\ SubSeq(s, 1, Len(prefix)) = prefix
endsWith(s, token)    == s # <<>> /\ s[Len(s)] = token
mid(s, n)             == SubSeq(s, n + 1, Len(s))
RECURSIVE untilEq(_)
untilEq(s) ==
    IF s = <<>> \/ s[1] = "=" THEN <<>> ELSE <<s[1]>> \o untilEq(Tail(s))
RECURSIVE afterEq(_)
afterEq(s) ==
    IF s = <<>> THEN <<>> ELSE IF s[1] = "=" THEN Tail(s) ELSE afterEq(Tail(s))
section(line) == untilEq(afterEq(line))         \* line.section('=', 1, 1)
RECURSIVE trimLeft(_)
trimLeft(s) == IF s # <<>> /\ s[1] = " " THEN trimLeft(Tail(s)) ELSE s
RECURSIVE trimRight(_)
trimRight(s) ==
    IF s # <<>> /\ s[Len(s)] = " " THEN trimRight(SubSeq(s, 1, Len(s) - 1)) ELSE s
trimmed(s) == trimRight(trimLeft(s))
toString(b) == IF b THEN <<"true">> ELSE <<"false">>

\* Utils::cleanPath: "//" collapsed, "/./" replaced by "/", a trailing "/" added.
RECURSIVE collapseSlashes(_)
collapseSlashes(p) ==
    IF Len(p) < 2 THEN p
    ELSE IF p[1] = "/" /\ p[2] = "/" THEN collapseSlashes(Tail(p))
    ELSE <<p[1]>> \o collapseSlashes(Tail(p))
RECURSIVE dropDots(_)
dropDots(p) ==
    IF Len(p) < 3 THEN p
    ELSE IF p[1] = "/" /\ p[2] = "." /\ p[3] = "/"
         THEN <<"/">> \o dropDots(SubSeq(p, 4, Len(p)))
    ELSE <<p[1]>> \o dropDots(Tail(p))
fixPath(p) ==
    LET d == dropDots(p)
    IN  IF d # <<>> /\ ~endsWith(d, "/") THEN d \o <<"/">> ELSE d
cleanPath(p) == fixPath(collapseSlashes(p))

\* The medium.
MountRoot  == "/mnt/usb"
\* FreeSpaceInfo::path(): the mount point as Utils::fixPath leaves it, with its
\* trailing separator.
MountPaths == {<<MountRoot, "/">>}
RECURSIVE stripSlashes(_)
stripSlashes(p) ==
    IF endsWith(p, "/") THEN stripSlashes(SubSeq(p, 1, Len(p) - 1)) ELSE p
\* QDir(p).exists() on the mounted medium d.
dirExists(p, d) ==
    LET q == stripSlashes(collapseSlashes(p))
    IN  \/ q = <<MountRoot>>
        \/ \E name \in d.dirs : q = <<MountRoot, "/", name>>

DefScheme == <<"%albumartist%", "/", "%album%", "/", "%track%", " ", "%title%">>
\* DeviceOptions(): the default options.
def ==
    [scheme |-> DefScheme, vfatSafe |-> TRUE, asciiOnly |-> FALSE,
     ignoreThe |-> FALSE, replaceSpaces |-> FALSE, name |-> <<>>,
     coverName |-> <<>>, autoScan |-> FALSE, useCache |-> TRUE]

NoSettingsFile == [exists |-> FALSE, lines |-> <<>>]
SettingsFiles ==
    {NoSettingsFile,
     [exists |-> TRUE,
      lines |-> << <<"audio_folder", "=", "Music">>,
                   <<"vfat_safe", "=", "true">>,
                   <<"x", "=", "1", "=", "2">> >>],
     [exists |-> TRUE,
      lines |-> << <<"# note">>,
                   <<"vfat_safe", "=", "false">>,
                   <<"x", "=", "1", "=", "2">> >>],
     [exists |-> TRUE,
      lines |-> << <<"audio_folder", "=", "Albums">>,
                   <<"music_filenamescheme", "=", "%artist%">>,
                   <<"vfat_safe", "=", "yes">>,
                   <<"collection_name", "=", " ", "Trip">> >>]}
\* The secondary Cantata settings file holds the options the plain-text file
\* does not: the cover name, auto-scan and the cache preference.
NoOpts == [exists |-> FALSE, coverName |-> <<>>, autoScan |-> FALSE, useCache |-> TRUE]
CantataSettingsFiles ==
    {NoOpts,
     [exists |-> TRUE, coverName |-> constDefCoverFileName, autoScan |-> TRUE,
      useCache |-> TRUE]}
\* FsDevice::readOpts(file, opts, false): the options after the read.
readOpts(d, opts) ==
    IF d.cantata.exists
    THEN [opts EXCEPT !.coverName = d.cantata.coverName,
                      !.autoScan = d.cantata.autoScan,
                      !.useCache = d.cantata.useCache]
    ELSE opts
\* FsDevice::writeOpts(file, opts, false): the file afterwards; it is removed
\* when every option it holds has its default.
writeOpts(opts) ==
    IF /\ opts.coverName = constDefCoverFileName
       /\ opts.autoScan = def.autoScan
       /\ opts.useCache = def.useCache
    THEN NoOpts
    ELSE [exists |-> TRUE, coverName |-> opts.coverName, autoScan |-> opts.autoScan,
          useCache |-> opts.useCache]
DirSets == {{}, {"Music"}, {"MUSIC"}, {"MUSIC", "Albums"}}
Disks ==
    [accessible : BOOLEAN, path : MountPaths, dirs : DirSets,
     settings : SettingsFiles, cantata : CantataSettingsFiles,
     size : {8}, used : {3}]

isConnectedUms(d) == d.accessible

startsWithKey(line, key) == startsWith(line, <<key, "=">>)

\* One line of the settings file, read into acc = the values setup() holds
\* while it reads: audioFolder, audioFolderSetting, opts, unusedParams.
readLine(acc, line, d) ==
    IF startsWithKey(line, constMusicFolderKey)
    THEN LET folder == cleanPath(d.path \o <<"/">> \o section(line))
         IN  [acc EXCEPT !.audioFolderSetting = folder,
                         !.audioFolder = IF dirExists(folder, d) THEN folder ELSE d.path]
    ELSE IF startsWithKey(line, constMusicFilenameSchemeKey)
    THEN IF section(line) # <<>>
         THEN [acc EXCEPT !.opts.scheme = section(line)]
         ELSE acc
    ELSE IF startsWithKey(line, constVfatSafeKey)
    THEN [acc EXCEPT !.opts.vfatSafe = (<<"true">> = section(line))]
    ELSE IF startsWithKey(line, constAsciiOnlyKey)
    THEN [acc EXCEPT !.opts.asciiOnly = (<<"true">> = section(line))]
    ELSE IF startsWithKey(line, constIgnoreTheKey)
    THEN [acc EXCEPT !.opts.ignoreThe = (<<"true">> = section(line))]
    ELSE IF startsWithKey(line, constReplaceSpacesKey)
    THEN [acc EXCEPT !.opts.replaceSpaces = (<<"true">> = section(line))]
    ELSE IF startsWithKey(line, constCollectionNameKey)
    THEN [acc EXCEPT !.opts.name = trimmed(section(line))]
    ELSE [acc EXCEPT !.unusedParams = @ \o <<line>>]

RECURSIVE readLines(_, _, _)
readLines(acc, lines, d) ==
    IF lines = <<>> THEN acc
    ELSE readLines(readLine(acc, lines[1], d), Tail(lines), d)

StandardDirs == <<"Music", "MUSIC", "Albums", "ALBUMS">>
RECURSIVE lastStandardDir(_, _, _)
lastStandardDir(names, folder, d) ==
    IF names = <<>> THEN folder
    ELSE IF dirExists(d.path \o <<names[Len(names)]>>, d)
         THEN d.path \o <<names[Len(names)]>>
    ELSE lastStandardDir(SubSeq(names, 1, Len(names) - 1), folder, d)
RECURSIVE firstStandardDir(_, _, _)
firstStandardDir(names, folder, d) ==
    IF names = <<>> THEN folder
    ELSE IF dirExists(d.path \o <<names[1]>>, d) THEN d.path \o <<names[1]>>
    ELSE firstStandardDir(Tail(names), folder, d)

\* What setup() and connectionStateChanged() do once the options are read:
\* rescan(false) from the cache, or the "Not Scanned" status.  cacheJob tells
\* that the scanner runs and may read the cache, reporting its progress.
scanOrStatus(u) ==
    IF u.opts.autoScan \/ u.scanned
    THEN [ums |-> [u EXCEPT !.cacheJob = @ \/ u.opts.useCache],
          emitted |-> <<Signal("rescan", <<FALSE>>)>>]
    ELSE [ums |-> [u EXCEPT !.statusMessage = <<"Not Scanned">>], emitted |-> <<>>]

\* setup() on the object u with the medium d: the object afterwards and what
\* was sent out.
setupOut(u, d) ==
    IF ~isConnectedUms(d) THEN [ums |-> u, emitted |-> <<>>]
    ELSE
    LET n        == u.data
        haveOpts == d.cantata.exists
        acc0     == [audioFolder |-> d.path, audioFolderSetting |-> <<>>,
                     opts |-> readOpts(d, u.opts),
                     unusedParams |-> u.unusedParams]
        acc1     == IF d.settings.exists THEN readLines(acc0, d.settings.lines, d)
                    ELSE acc0
        conf1    == d.settings.exists \/ u.configured
        conf2    == IF ~conf1 THEN haveOpts ELSE conf1
        opts2    == IF acc1.opts.coverName = <<>>
                    THEN [acc1.opts EXCEPT !.coverName = constDefCoverFileName]
                    ELSE acc1.opts
        folder2  == IF acc1.audioFolderSetting = <<>>
                       \/ acc1.audioFolderSetting # acc1.audioFolder
                    THEN firstStandardDir(StandardDirs, acc1.audioFolder, d)
                    ELSE acc1.audioFolder
        folder3  == IF ~endsWith(folder2, "/") THEN folder2 \o <<"/">> ELSE folder2
        u1       == [u EXCEPT !.audioFolder = folder3, !.configured = conf2,
                              !.opts = opts2, !.unusedParams = acc1.unusedParams]
        scan     == scanOrStatus(u1)
        rename   == opts2.name # <<>> /\ opts2.name # n
    IN  [ums     |-> IF rename THEN [scan.ums EXCEPT !.data = opts2.name] ELSE scan.ums,
         emitted |-> scan.emitted
                     \o (IF rename THEN <<Signal("renamed", <<>>)>> ELSE <<>>)]

DefaultName == <<"USB Disk", " (", "8.0 GiB", ")">>
\* The object the constructor leaves on the medium d.
newUmsDevice(d) ==
    setupOut([audioFolder |-> <<>>, configured |-> FALSE, opts |-> def,
              unusedParams |-> <<>>, data |-> DefaultName,
              defaultName |-> DefaultName, scanned |-> FALSE,
              statusMessage |-> <<>>, cacheProgress |-> -1, cacheJob |-> FALSE], d)

\* The medium is mounted or unmounted and the device is told.
connectionStateChanged(accessible) ==
    LET d   == [disk EXCEPT !.accessible = accessible]
        set == setupOut(ums, d)
        fin == scanOrStatus(set.ums)
    IN  /\ accessible # disk.accessible
        /\ accessible => Len(set.ums.unusedParams) <= MaxUnused
        /\ disk' = d
        /\ IF isConnectedUms(d)
           THEN /\ ums' = fin.ums
                /\ emitted' = set.emitted \o fin.emitted
           ELSE /\ ums' = ums
                /\ emitted' = <<Signal("clear", <<>>)>>
        /\ last' = [op |-> "connectionStateChanged"]
        /\ UNCHANGED <<copyVars, discVars>>

\* The lines saveOptions() writes for the object u on a medium mounted at path.
saveOptionsLines(u, path) ==
    LET fixedPath == IF startsWith(u.audioFolder, path)
                     THEN <<".", "/">> \o mid(u.audioFolder, Len(path))
                     ELSE u.audioFolder
        opt(cond, key, value) == IF cond THEN << <<key, "=">> \o value >> ELSE <<>>
    IN  opt(fixedPath # <<>>, constMusicFolderKey, fixedPath)
        \o opt(u.opts.scheme # def.scheme, constMusicFilenameSchemeKey, u.opts.scheme)
        \o opt(u.opts.scheme # def.scheme, constVfatSafeKey, toString(u.opts.vfatSafe))
        \o opt(u.opts.asciiOnly # def.asciiOnly, constAsciiOnlyKey, toString(u.opts.asciiOnly))
        \o opt(u.opts.ignoreThe # def.ignoreThe, constIgnoreTheKey, toString(u.opts.ignoreThe))
        \o opt(u.opts.replaceSpaces # def.replaceSpaces, constReplaceSpacesKey,
               toString(u.opts.replaceSpaces))
        \o opt(u.opts.name # <<>> /\ u.opts.name # u.defaultName,
               constCollectionNameKey, u.opts.name)
        \o u.unusedParams

\* The medium after saveOptions() on the object u; canOpen tells whether the
\* settings file can be opened for writing.
saveOptionsDisk(u, d, canOpen) ==
    IF isConnectedUms(d) /\ canOpen
    THEN [d EXCEPT !.settings =
             [exists |-> TRUE, lines |-> saveOptionsLines(u, d.path)]]
    ELSE d

saveOptions(canOpen) ==
    /\ disk' = saveOptionsDisk(ums, disk, canOpen)
    /\ emitted' = <<>>
    /\ last' = [op |-> "saveOptions", wrote |-> isConnectedUms(disk) /\ canOpen,
                read |-> disk.settings.lines]
    /\ UNCHANGED ums
    /\ UNCHANGED <<copyVars, discVars>>

\* What the properties dialog may hand to saveProperties.
NewOptions ==
    {[def EXCEPT !.coverName = constDefCoverFileName],
     [def EXCEPT !.coverName = constDefCoverFileName, !.vfatSafe = FALSE],
     [def EXCEPT !.coverName = constDefCoverFileName, !.scheme = <<"%artist%">>,
                 !.name = <<"Trip">>, !.useCache = FALSE]}
NewPaths == {<<MountRoot, "/">>, <<MountRoot, "/", "Music">>}

saveProperties(newPath, newOpts, canOpen) ==
    LET nPath     == fixPath(newPath)
        noop      == ums.configured /\ ums.opts = newOpts /\ nPath = ums.audioFolder
        newName   == IF newOpts.name = <<>> THEN ums.defaultName ELSE newOpts.name
        diffName  == ums.opts.name # newName
        diffCache == ums.opts.useCache # newOpts.useCache
        u1        == [ums EXCEPT !.configured = TRUE, !.opts = newOpts,
                                 !.data = IF diffName THEN newName ELSE @]
        sent1     == (IF diffCache
                      THEN <<Signal(IF newOpts.useCache THEN "saveCache"
                                    ELSE "removeCache", <<>>)>>
                      ELSE <<>>)
                     \o <<Signal("configurationChanged", <<>>)>>
        oldPath   == ums.audioFolder
        u2        == [u1 EXCEPT !.audioFolder = nPath]
        d2        == [saveOptionsDisk(u2, disk, canOpen) EXCEPT
                         !.cantata = writeOpts(u2.opts)]
    IN  /\ IF noop
           THEN /\ emitted' = <<>>
                /\ UNCHANGED <<ums, disk>>
           ELSE IF ~isConnectedUms(disk)
           THEN /\ ums' = u1
                /\ emitted' = sent1
                /\ UNCHANGED disk
           ELSE /\ ums' = u2
                /\ disk' = d2
                /\ emitted' = sent1
                      \o (IF oldPath # nPath THEN <<Signal("rescan", <<TRUE>>)>>
                          ELSE <<>>)
                      \o (IF diffName THEN <<Signal("renamed", <<>>)>> ELSE <<>>)
        /\ last' = [op |-> "saveProperties", noop |-> noop, canOpen |-> canOpen]
        /\ UNCHANGED <<copyVars, discVars>>


\* FsDevice's progress callback while the scanner reads the cache: the
\* percentage is kept in cacheProgress and shown in the status message.
Progress == {50}
cacheStatus(pc) ==
    /\ ums.cacheJob
    /\ pc # ums.cacheProgress
    /\ ums' = [ums EXCEPT !.cacheProgress = pc,
                          !.statusMessage = <<"Reading cache", pc>>]
    /\ emitted' = <<>>
    /\ last' = [op |-> "cacheStatus"]
    /\ UNCHANGED disk
    /\ UNCHANGED <<copyVars, discVars>>

\* The scanner has finished with the cache.
cacheRead ==
    /\ ums.cacheJob
    /\ ums' = [ums EXCEPT !.cacheProgress = -1, !.cacheJob = FALSE,
                          !.statusMessage = <<>>]
    /\ emitted' = <<>>
    /\ last' = [op |-> "cacheRead"]
    /\ UNCHANGED disk
    /\ UNCHANGED <<copyVars, discVars>>

\* The three capacity queries; a double is written <<numerator, denominator>>.
usedCapacityOf(u, d) ==
    IF u.cacheProgress > -1 THEN <<u.cacheProgress, 100>>
    ELSE IF ~isConnectedUms(d) THEN <<-1, 1>>
    ELSE IF d.size > 0 THEN <<d.used, d.size>> ELSE <<-1, 1>>
capacityStringOf(u, d) ==
    IF u.cacheProgress > -1 THEN u.statusMessage
    ELSE IF ~isConnectedUms(d) THEN <<"Not Connected">>
    ELSE <<"free", d.size - d.used>>
freeSpaceOf(u, d) ==
    IF ~isConnectedUms(d) THEN 0 ELSE d.size - d.used

usedCapacity ==
    /\ last' = [op |-> "usedCapacity", result |-> usedCapacityOf(ums, disk)]
    /\ emitted' = <<>>
    /\ UNCHANGED <<copyVars, discVars, umsVars>>
capacityString ==
    /\ last' = [op |-> "capacityString", result |-> capacityStringOf(ums, disk)]
    /\ emitted' = <<>>
    /\ UNCHANGED <<copyVars, discVars, umsVars>>
freeSpace ==
    /\ last' = [op |-> "freeSpace", result |-> freeSpaceOf(ums, disk)]
    /\ emitted' = <<>>
    /\ UNCHANGED <<copyVars, discVars, umsVars>>

(***************************************************************************)
(* AudioCdDevice::getDevice.                                               *)
(*                                                                         *)
(* A URL is what QUrl hands out: its scheme, its path and its query items  *)
(* in order.  Paths and query values are strings in the token form above.  *)
(***************************************************************************)
constAnyDev == <<"-">>

RunUser == <<"/", "run", "/", "user", "/">>     \* "/run/user/"
marker  == <<"/", "gvfs", "/", "cdda:host=">>   \* "/gvfs/cdda:host="
GvfsDir == RunUser \o <<"1000">> \o marker

Schemes == {"cdda", "file", "http", ""}
UrlPaths ==
    {<<>>, <<"/">>,
     GvfsDir \o <<"sr0">>,
     GvfsDir \o <<"sr1">>,
     GvfsDir \o <<"sr0">> \o marker \o <<"sr1">>,
     GvfsDir,
     RunUser \o <<"1000", "/", "gvfs", "/", "smb-share">>,
     <<"/", "run", "/", "user">>,
     <<"/", "home">> \o marker \o <<"sr0">>}
Item(key, value) == [key |-> key, value |-> value]
Queries ==
    {<<>>,
     <<Item("dev", <<"/", "dev", "/", "sr1">>)>>,
     <<Item("dev", <<"/", "dev", "/", "sr0">>), Item("dev", <<"/", "dev", "/", "sr1">>)>>,
     <<Item("x", <<"1">>)>>,
     <<Item("x", <<"1">>), Item("dev", <<"/", "dev", "/", "sr1">>)>>,
     <<Item("dev", <<>>)>>}
Urls == [scheme : Schemes, path : UrlPaths, query : Queries]

\* QUrlQuery::hasQueryItem and queryItemValue (the first item of that key).
hasQueryItem(q, key) == \E i \in 1..Len(q) : q[i].key = key
queryItemValue(q, key) ==
    IF hasQueryItem(q, key)
    THEN q[CHOOSE i \in 1..Len(q) :
              q[i].key = key /\ \A j \in 1..(i - 1) : q[j].key # key].value
    ELSE <<>>

\* QString::lastIndexOf: the last position (from 0) at which m occurs, or -1.
occursAt(s, m, pos) ==
    pos + Len(m) <= Len(s) /\ SubSeq(s, pos + 1, pos + Len(m)) = m
lastIndexOf(s, m) ==
    IF \E pos \in 0..Len(s) : occursAt(s, m, pos)
    THEN CHOOSE pos \in 0..Len(s) :
            occursAt(s, m, pos) /\ \A later \in (pos + 1)..Len(s) : ~occursAt(s, m, later)
    ELSE -1

getDeviceAnyScheme(url) ==
    IF hasQueryItem(url.query, "dev")
    THEN queryItemValue(url.query, "dev")
    ELSE constAnyDev
getDevice(url) ==
    IF url.scheme = "cdda"
    THEN IF hasQueryItem(url.query, "dev")
         THEN queryItemValue(url.query, "dev")
         ELSE constAnyDev
    ELSE LET path == url.path
             pos  == lastIndexOf(path, marker)
         IN  IF startsWith(path, RunUser) /\ pos # -1
             THEN <<"/", "dev", "/">> \o mid(path, pos + Len(marker))
             ELSE <<>>

callGetDevice(url) ==
    /\ last' = [op |-> "getDevice", url |-> url, result |-> getDevice(url)]
    /\ emitted' = <<>>
    /\ UNCHANGED <<copyVars, discVars, umsVars>>


(***************************************************************************)
(* AudioCdDevice::~AudioCdDevice.                                          *)
(***************************************************************************)
constCddaCoverDir == <<"cache/cdda/">>
\* Utils::cacheDir(Covers::constCddaCoverDir, false): the directory's path with
\* its trailing separator, or an empty string when the directory does not
\* exist (it is not created).
cacheDir(c) == IF c.cacheDirExists THEN constCddaCoverDir ELSE <<>>

\* The cover files left on disk by the destructor of the object d.
filesAfterTeardown(d, c) ==
    IF d.coverImage.fileName # <<>>
       /\ startsWith(d.coverImage.fileName, cacheDir(c))
    THEN c.files \ {d.coverImage.fileName}
    ELSE c.files

destructor ==
    /\ alive
    /\ cd' = [cd EXCEPT !.cddb = FALSE, !.mb = FALSE, !.lookupTo = {}]
    /\ covers' = [covers EXCEPT !.files = filesAfterTeardown(cd, covers)]
    /\ emitted' = <<>>
    /\ last' = [op |-> "~AudioCdDevice"]
    /\ UNCHANGED pending
    /\ UNCHANGED <<copyVars, umsVars>>
(***************************************************************************)
(* Idle values of the parts a specification does not exercise.             *)
(***************************************************************************)
CopyIdle ==
    /\ drive = TRUE /\ fixVa = FALSE /\ library = {}
    /\ encoderCodec = "" /\ dirs = {} /\ canCreateDirs = FALSE
    /\ jobAbortRequested = FALSE /\ needToFixVa = FALSE
    /\ currentDestFile = NoFile /\ currentSong = NoSong
    /\ jobs = EmptyBag
    /\ files = [f \in DestFiles |-> FALSE]
DiscIdle == cd = newAudioCdDevice("", TRUE) /\ pending = 0 /\ covers = NoCovers
IdleDisk ==
    [accessible |-> FALSE, path |-> <<MountRoot, "/">>, dirs |-> {},
     settings |-> NoSettingsFile, cantata |-> NoOpts, size |-> 8, used |-> 3]
UmsIdle  == disk = IdleDisk /\ ums = newUmsDevice(IdleDisk).ums

(***************************************************************************)
(* SpecCopy: the extraction pipeline.                                      *)
(***************************************************************************)
InitCopy ==
    /\ drive \in BOOLEAN
    /\ fixVa \in BOOLEAN
    /\ library \in Libraries
    /\ encoderCodec \in {"", "oggenc"}
    /\ dirs = {}
    /\ canCreateDirs \in BOOLEAN
    /\ jobAbortRequested = FALSE
    /\ needToFixVa = FALSE
    /\ currentDestFile = NoFile
    /\ currentSong = NoSong
    /\ jobs = EmptyBag
    /\ files = [f \in DestFiles |-> FALSE]
    /\ DiscIdle /\ UmsIdle
    /\ emitted = <<>>
    /\ last = [op |-> "init"]

NextCopy ==
    \/ \E r \in CopyRequests, overwrite \in BOOLEAN :
          copySongTo(r.s, r.musicPath, overwrite)
    \/ \E job \in JobKinds : jobRun(job)
    \/ abortJob
    \/ \E job \in JobKinds, pc \in Percents : percent(job, pc)
    \/ \E job \in JobKinds, status \in Statuses, coverCopied \in BOOLEAN,
          mopidy \in BOOLEAN : copySongToResult(job, status, coverCopied, mopidy)
    \/ toggle

SpecCopy == InitCopy /\ [][NextCopy]_vars


(***************************************************************************)
(* SpecDisc: the disc metadata.  Init is the device the constructor leaves:*)
(* with a device path it has connected its lookup service and emitted      *)
(* lookup(cdAuto); without one it has done neither.                        *)
(***************************************************************************)
InitDisc ==
    /\ CopyIdle /\ UmsIdle
    /\ \E device \in {"", "/dev/sr0"}, useCddb \in BOOLEAN, cdAuto \in BOOLEAN :
          /\ cd = newAudioCdDevice(device, useCddb)
          /\ pending = IF device # "" THEN 1 ELSE 0
          /\ emitted = IF device # "" THEN <<Signal("lookup", <<cdAuto>>)>> ELSE <<>>
          /\ last = [op |-> "AudioCdDevice", useCddb |-> useCddb]
    /\ covers \in CoverStores

NextDisc ==
    \/ \E a \in Albums, img \in Images : setDetails(a, img)
    \/ \E albums \in MatchLists, img \in Images : cdMatches(albums, img)
    \/ serviceError
    \/ \E useCddb \in BOOLEAN : rescan(useCddb)
    \/ totalTime
    \/ autoplay
    \/ \E a \in Candidates, cdda \in BOOLEAN, img \in CoverImages : setCover(a, cdda, img)
    \/ destructor

SpecDisc == InitDisc /\ [][NextDisc]_vars

(***************************************************************************)
(* SpecUms: the settings of the UMS device.  Init is the object the        *)
(* constructor leaves, which has run setup() on the medium.                *)
(***************************************************************************)
InitUms ==
    /\ CopyIdle /\ DiscIdle
    /\ disk \in Disks
    /\ ums = newUmsDevice(disk).ums
    /\ emitted = newUmsDevice(disk).emitted
    /\ last = [op |-> "UmsDevice"]

NextUms ==
    \/ \E accessible \in BOOLEAN : connectionStateChanged(accessible)
    \/ \E canOpen \in BOOLEAN : saveOptions(canOpen)
    \/ \E newPath \in NewPaths, newOpts \in NewOptions, canOpen \in BOOLEAN :
          saveProperties(newPath, newOpts, canOpen)

SpecUms == InitUms /\ [][NextUms]_vars


(***************************************************************************)
(* SpecCapacity: the capacity queries of the UMS device while the medium   *)
(* is mounted and unmounted and the scanner reports on the cache.          *)
(***************************************************************************)
NextCapacity ==
    \/ \E accessible \in BOOLEAN : connectionStateChanged(accessible)
    \/ \E pc \in Progress : cacheStatus(pc)
    \/ cacheRead
    \/ usedCapacity
    \/ capacityString
    \/ freeSpace

SpecCapacity == InitUms /\ [][NextCapacity]_vars

(***************************************************************************)
(* SpecUrl: AudioCdDevice::getDevice applied to URLs.                      *)
(***************************************************************************)
InitUrl ==
    /\ CopyIdle /\ DiscIdle /\ UmsIdle
    /\ emitted = <<>>
    /\ last = [op |-> "init"]

NextUrl == \E url \in Urls : callGetDevice(url)

SpecUrl == InitUrl /\ [][NextUrl]_vars

(***************************************************************************)
(* Claims on the extraction pipeline (SpecCopy).                           *)
(***************************************************************************)
ActionStatus(status, copiedCover) == Signal("actionStatus", <<status, copiedCover>>)
OkEmitted(sigs) ==
    \E i \in 1..Len(sigs) : sigs[i].sig = "actionStatus" /\ sigs[i].val[1] = "Ok"

\* C1: at most one extraction job exists at any time (a copySongTo issued while
\* a job has not delivered its result starts no second job).
C1_AtMostOneJob == BagCardinality(jobs) <= 1

\* C2: when abortJob was called while a job existed, then after that job's
\* result is handled the file the job wrote no longer exists and no Ok status
\* was emitted.
C2_AbortRemovesFileAndSuppressesOk ==
    (last.op = "copySongToResult" /\ last.job.abortSeen)
    => /\ last.job.st = "running" => ~files[last.job.dest]
       /\ ~OkEmitted(emitted)

\* The song as the collection would hold it: normalised when the device's
\* various-artists fix is on and the song is a various-artists song.
NormalisedSong(s) ==
    IF fixVa /\ s.albumartist = VariousArtists
    THEN [s EXCEPT !.title = <<s.artist, " - ">> \o s.title, !.artist = s.albumartist]
    ELSE s
InCollection(s) ==
    \E m \in library : /\ m.artist = NormalisedSong(s).artist
                       /\ m.albumartist = NormalisedSong(s).albumartist
                       /\ m.title = NormalisedSong(s).title
NoJobStarted == BagCardinality(jobs) = last.before

\* C3 as stated: copySongTo with overwrite=false for a song that exists in the
\* collection emits SongExists and starts no job (whatever the connection state).
C3_SongExistsAlways ==
    (last.op = "copySongTo" /\ ~last.overwrite /\ InCollection(last.s))
    => emitted = <<ActionStatus("SongExists", FALSE)>> /\ NoJobStarted

\* C3 amended: on a connected device, copySongTo with overwrite=false for a song
\* that exists in the collection (after the various-artists normalisation of the
\* checked copy when the fix applies) emits SongExists; connected or not, it
\* starts no job.
C3_SongExistsWhenConnected ==
    (last.op = "copySongTo" /\ ~last.overwrite /\ InCollection(last.s))
    => /\ NoJobStarted
       /\ drive => emitted = <<ActionStatus("SongExists", FALSE)>>

C3_Witness ==
    /\ last.op = "copySongTo" /\ ~last.overwrite
    /\ drive /\ fixVa /\ last.s = SongVa
    /\ emitted = <<ActionStatus("SongExists", FALSE)>>

\* C4: copySongTo checks connection, existing destination (only when overwrite
\* is false), encoder, directory creation, in this order; the first failing check
\* emits its one status and no job starts; a job starts iff every check passes.
C4_ChecksInOrder ==
    last.op = "copySongTo"
    => LET c1 == drive
           c2 == last.overwrite \/ ~InCollection(last.s)
           c3 == encoderCodec # ""
           c4 == getDir(destFile(last.musicPath)) \in dirs \/ canCreateDirs
           only(status) == emitted = <<ActionStatus(status, FALSE)>> /\ NoJobStarted
           started == BagCardinality(jobs) = last.before + 1 /\ emitted = <<>>
       IN  /\ ~c1 => only("NotConnected")
           /\ c1 /\ ~c2 => only("SongExists")
           /\ c1 /\ c2 /\ ~c3 => only("CodecNotAvailable")
           /\ c1 /\ c2 /\ c3 /\ ~c4 => only("DirCreationFaild")
           /\ started <=> (c1 /\ c2 /\ c3 /\ c4)

C4_Witness ==
    /\ last.op = "copySongTo"
    /\ ~last.overwrite /\ InCollection(last.s)
    /\ encoderCodec = "" /\ ~canCreateDirs
    /\ emitted = <<ActionStatus("SongExists", FALSE)>>

\* C5: toggle on a device with a job in flight first asks that job to abort,
\* then ejects the drive and purges the device's entries from the play queue.
C5_ToggleAbortsJob ==
    (last.op = "toggle" /\ drive /\ last.active > 0)
    => /\ jobAbortRequested \/ (emitted # <<>> /\ emitted[1].sig = "stop")
       /\ \E i, k \in 1..Len(emitted) :
             /\ i < k
             /\ emitted[i].sig = "eject"
             /\ emitted[k].sig = "removeCantataStreams"

\* C6: while an abort is requested a percent(pc) with pc # 100 emits no progress
\* and asks the sending job to stop; percent(100), and every percent while no
\* abort is requested, emits progress(pc).
C6_PercentWhileAborting ==
    last.op = "percent"
    => IF jobAbortRequested /\ last.pc # 100
       THEN emitted = <<Signal("stop", <<last.job.dest>>)>>
       ELSE emitted = <<Signal("progress", <<last.pc>>)>>

C6_Witness ==
    /\ last.op = "percent"
    /\ jobAbortRequested /\ last.pc = 50
    /\ emitted = <<Signal("stop", <<last.job.dest>>)>>


\* C21: an abort stays in effect until the aborted job's result has been
\* handled, whatever copySongTo calls come in between: the device's abort flag
\* is set as long as a job that was told to abort exists, and handling that
\* job's result emits no Ok, leaves no file of the job on disk and does not
\* touch currentSong.
abortedJobs == {job \in BagToSet(jobs) : job.abortSeen}
C21_AbortStaysInEffect ==
    [][/\ abortedJobs' # {} => jobAbortRequested'
       /\ (last'.op = "copySongToResult" /\ last'.job.abortSeen) =>
             /\ ~OkEmitted(emitted')
             /\ last'.job.st = "running" => ~files'[last'.job.dest]
             /\ currentSong' = currentSong]_vars

statusesEmitted(sigs) == {i \in 1..Len(sigs) : sigs[i].sig = "actionStatus"}
\* The destination path without the collection root it starts with.
relativeDest == Tail(currentDestFile)

\* C24 as stated: handling a job's result emits no actionStatus while an abort
\* is pending; otherwise exactly one: the job's status when it is not Ok, else
\* Ok with the job's cover-copied flag, and currentSong.file becomes the
\* destination path relative to the collection root.
C24_OneStatusRelativeFile ==
    [][last'.op = "copySongToResult" =>
          IF jobAbortRequested
          THEN statusesEmitted(emitted') = {} /\ currentSong' = currentSong
          ELSE IF last'.status # "Ok"
          THEN emitted' = <<ActionStatus(last'.status, FALSE)>>
          ELSE /\ emitted' = <<ActionStatus("Ok", last'.coverCopied)>>
               /\ currentSong'.file = relativeDest]_vars

\* C24 amended: the same, except that on a Mopidy server currentSong.file
\* becomes Song::encodePath of the relative destination path.
C24_OneStatusPerResult ==
    [][last'.op = "copySongToResult" =>
          IF jobAbortRequested
          THEN statusesEmitted(emitted') = {} /\ currentSong' = currentSong
          ELSE IF last'.status # "Ok"
          THEN emitted' = <<ActionStatus(last'.status, FALSE)>>
          ELSE /\ emitted' = <<ActionStatus("Ok", last'.coverCopied)>>
               /\ currentSong'.file = IF last'.mopidy
                                      THEN <<"mopidy:">> \o relativeDest
                                      ELSE relativeDest]_vars

C24_Witness ==
    /\ last.op = "copySongToResult"
    /\ ~jobAbortRequested
    /\ last.status = "Ok" /\ last.coverCopied /\ last.mopidy
    /\ emitted = <<ActionStatus("Ok", TRUE)>>
    /\ currentSong.file = <<"mopidy:">> \o relativeDest
(***************************************************************************)
(* Claims on the disc metadata (SpecDisc).                                 *)
(***************************************************************************)
Matches(albums) == Signal("matches", <<id, albums>>)

\* C7 as stated: cdMatches with two or more candidates emits matches(id,
\* candidates) and leaves every field of the device as it was, lookupInProcess
\* included.
C7_MatchesChangesNothing ==
    [][(last'.op = "cdMatches" /\ Len(last'.albums) >= 2)
       => (cd' = cd /\ emitted' = <<Matches(last'.albums)>>)]_vars

\* C7 amended: cdMatches with two or more candidates emits matches(id,
\* candidates), sets lookupInProcess to false and leaves every other field of
\* the device (album, artist, composer, genre, year, disc, track subtree, cover,
\* status text, autoPlay) as it was.
C7_MatchesOnlyClearsLookup ==
    [][(last'.op = "cdMatches" /\ Len(last'.albums) >= 2)
       => (/\ cd' = [cd EXCEPT !.lookupInProcess = FALSE]
           /\ emitted' = <<Matches(last'.albums)>>)]_vars

C7_Witness ==
    /\ last.op = "cdMatches" /\ Len(last.albums) >= 2
    /\ emitted = <<Matches(last.albums)>>
    /\ ~cd.lookupInProcess
    /\ cd.album = "Abbey Road" /\ cd.childItems # <<>>

\* C8: cdMatches with exactly one candidate leaves the device as setDetails
\* with that candidate would have left it from the same prior state, and sends
\* out the same notifications.
C8_SingleMatchIsSetDetails ==
    [][(last'.op = "cdMatches" /\ Len(last'.albums) = 1)
       => (/\ cd' = setDetailsOut(cd, last'.albums[1], last'.img).cd
           /\ emitted' = setDetailsOut(cd, last'.albums[1], last'.img).emitted)]_vars

C8_Witness ==
    /\ last.op = "cdMatches" /\ Len(last.albums) = 1
    /\ cd.album = last.albums[1].name
    /\ Len(cd.childItems) = Len(last.albums[1].tracks)
    /\ emitted # <<>> /\ emitted[1] = Signal("updating", <<id, FALSE>>)

\* C9: totalTime() returns the sum of the durations of the device's child
\* tracks (0 while there is none, 320 once tracks of 120 and 200 seconds are
\* there, on every call).
C9_TotalTimeIsSum ==
    last.op = "totalTime" => last.result = sumTime(cd.childItems)

services(d) == (IF d.cddb THEN {"cddb"} ELSE {}) \cup (IF d.mb THEN {"mb"} ELSE {})
selected(useCddb) == IF useCddb THEN "cddb" ELSE "mb"
preferenceGiven == last.op \in {"AudioCdDevice", "rescan"}

\* C14 as stated: whatever connectService/rescan calls were made, exactly one
\* lookup service exists, it is the one the most recent preference selects, and
\* it alone is connected to the lookup signal.
C14_ExactlyOneService ==
    alive =>
    /\ Cardinality(services(cd)) = 1
    /\ cd.lookupTo = services(cd)
    /\ preferenceGiven => services(cd) = {selected(last.useCddb)}

\* C14 amended: on a device that has a device path, exactly one lookup service
\* exists, it is the one the most recent preference selects, and it alone is
\* connected to the lookup signal; a device without a device path never
\* creates a service, whatever rescan calls are made.
C14_ExactlyOneServiceWithDevice ==
    alive =>
    IF cd.device # ""
    THEN /\ Cardinality(services(cd)) = 1
         /\ cd.lookupTo = services(cd)
         /\ preferenceGiven => services(cd) = {selected(last.useCddb)}
    ELSE services(cd) = {} /\ cd.lookupTo = {}

C14_Witness ==
    /\ last.op = "rescan" /\ ~last.useCddb
    /\ cd.device # "" /\ pending = 2
    /\ cd.mb /\ ~cd.cddb /\ cd.lookupTo = {"mb"}

\* C15: every track of the album setDetails installed has, in the rebuilt
\* subtree, the size of its duration in seconds times 176400, a value the C++
\* int holds without wrapping for every duration up to the longest CD track.
C15_TrackSize ==
    last.op = "setDetails" =>
        /\ Len(cd.childItems) = Len(last.a.tracks)
        /\ \A i \in 1..Len(cd.childItems) :
              /\ cd.childItems[i].time = last.a.tracks[i].time
              /\ cd.childItems[i].time <= MaxTrackSeconds
              /\ cd.childItems[i].size = cd.childItems[i].time * 176400
              /\ cd.childItems[i].size \in 0..2147483647

C15_Witness ==
    /\ last.op = "setDetails"
    /\ \E i \in 1..Len(cd.childItems) :
          cd.childItems[i].time = 180 /\ cd.childItems[i].size = 31752000
    /\ \E i \in 1..Len(cd.childItems) :
          /\ cd.childItems[i].time = MaxTrackSeconds
          /\ cd.childItems[i].size = MaxTrackSeconds * 176400

sent(sig) == {i \in 1..Len(emitted) : emitted[i].sig = sig}

\* C17: setDetails asks for the cover exactly when the album it installs is not
\* a placeholder and differs in name or artist from the one installed before;
\* when it does not ask, the cover the device holds stays as it was.
C17_CoverFetch ==
    [][last'.op = "setDetails" =>
          LET a       == last'.a
              fetched == \E i \in 1..Len(emitted') : emitted'[i].sig = "requestImage"
          IN  /\ fetched <=> (~a.isDefault /\ (cd.album # a.name \/ cd.artist # a.artist))
              /\ fetched =>
                    \E i \in 1..Len(emitted') :
                        emitted'[i] = Signal("requestImage", <<a.artist, a.name>>)
              /\ ~fetched => cd'.coverImage = cd.coverImage]_vars

\* The same album installed again while the device holds its cover.
C17_Witness ==
    /\ last.op = "setDetails"
    /\ ~last.a.isDefault
    /\ last.img = CachedCover
    /\ sent("requestImage") = {}
    /\ cd.coverImage = CachedCover

\* setDetails runs when it is called and when cdMatches passes it a single match.
setDetailsRan ==
    last'.op = "setDetails" \/ (last'.op = "cdMatches" /\ Len(last'.albums) = 1)
installedAlbum == IF last'.op = "setDetails" THEN last'.a ELSE last'.albums[1]
installed(a) ==
    [i \in 1..Len(a.tracks) |->
        [a.tracks[i] EXCEPT !.file = cd.devPath \o a.tracks[i].file,
                            !.size = a.tracks[i].time * 176400]]
installsTracks == setDetailsRan /\ installedAlbum.tracks # <<>>
emittedOnce(sig, value) ==
    /\ \E i \in 1..Len(emitted') : emitted'[i] = Signal(sig, value)
    /\ Cardinality({i \in 1..Len(emitted') : emitted'[i].sig = sig}) = 1
emittedNo(sig) == \A i \in 1..Len(emitted') : emitted'[i].sig # sig
autoplayClaim ==
    /\ (last'.op = "autoplay" /\ cd.childItems = <<>>) =>
           cd'.autoPlay /\ emittedNo("play")
    /\ (cd.autoPlay /\ ~installsTracks) => cd'.autoPlay
    /\ (cd.autoPlay /\ installsTracks) =>
           /\ emittedOnce("play", <<installed(installedAlbum)>>)
           /\ emittedNo("updatedDetails")
           /\ ~cd'.autoPlay
    /\ (setDetailsRan /\ ~cd.autoPlay) =>
           /\ emittedOnce("updatedDetails", <<installed(installedAlbum)>>)
           /\ emittedNo("play")
    /\ (last'.op = "autoplay" /\ cd.childItems # <<>>) =>
           /\ emittedOnce("play", <<tracksOf(cd)>>)
           /\ cd'.autoPlay = cd.autoPlay

\* C18: autoplay() on a device without child tracks is remembered until the
\* next setDetails that installs a non-empty track list, which emits play for
\* those tracks exactly once and no updatedDetails; setDetails without a
\* remembered request emits updatedDetails instead; autoplay() on a device with
\* tracks emits play at once and does not set the flag.
C18_AutoplayRemembered == [][autoplayClaim]_vars

insideCoverCache(fileName) == startsWith(fileName, constCddaCoverDir)

\* C20: the destructor deletes no cover file other than the device's current
\* cover image file, and that one only when its name is not empty and lies
\* inside the CD-cover cache directory.
C20_TeardownDeletesOnlyCachedCover ==
    [][last'.op = "~AudioCdDevice" =>
          \A f \in covers.files \ covers'.files :
              /\ f = cd.coverImage.fileName
              /\ f # <<>>
              /\ insideCoverCache(f)]_vars

\* C22: a lookup that is started (by the constructor of a device with a device
\* path, or by rescan) sets lookupInProcess, and the service's response clears
\* it, be the response initial details, a list of matches of any length, or
\* an error.
lookupStarted ==
    cd.device # "" /\ last.op \in {"AudioCdDevice", "rescan"}
serviceResponded == last.op \in {"setDetails", "cdMatches", "serviceError"}
C22_LookupInProcessCleared ==
    /\ lookupStarted => cd.lookupInProcess
    /\ serviceResponded => ~cd.lookupInProcess

(***************************************************************************)
(* Claims on the UMS settings (SpecUms).                                   *)
(***************************************************************************)
recognised(line) == \E key \in Keys : startsWithKey(line, key)
unrecognised(lines) == SelectSeq(lines, LAMBDA line : ~recognised(line))
vfatLines(lines) == SelectSeq(lines, LAMBDA line : startsWithKey(line, constVfatSafeKey))

\* C10: the file saveOptions() writes holds the unrecognised lines of the file
\* setup() read, verbatim, once each and in their order, after the recognised
\* keys; and after setup() has read a file with a vfat_safe line, vfatSafe is
\* true exactly when that line is vfat_safe=true.
C10_RoundTrip ==
    /\ (last.op = "saveOptions" /\ last.wrote)
       => LET out == disk.settings.lines
              n   == Len(out) - Len(unrecognised(out))
          IN  /\ unrecognised(out) = unrecognised(last.read)
              /\ \A i \in 1..Len(out) : recognised(out[i]) <=> i <= n
    /\ (/\ last.op \in {"UmsDevice", "connectionStateChanged"}
        /\ isConnectedUms(disk) /\ disk.settings.exists
        /\ vfatLines(disk.settings.lines) # <<>>)
       => LET lines == vfatLines(disk.settings.lines)
          IN  ums.opts.vfatSafe = (lines[Len(lines)] = <<constVfatSafeKey, "=", "true">>)

hasKey(lines, key) == \E i \in 1..Len(lines) : startsWithKey(lines[i], key)

\* C11: the file saveOptions() writes has the folder key always, and each option
\* key exactly when the option's value differs from its default; in particular
\* the vfat_safe key exactly when vfatSafe differs from its default, whatever
\* the naming scheme is.
C11_KeyIffNotDefault ==
    (last.op = "saveOptions" /\ last.wrote)
    => LET out == disk.settings.lines
       IN  /\ hasKey(out, constMusicFolderKey)
           /\ hasKey(out, constMusicFilenameSchemeKey) <=> ums.opts.scheme # def.scheme
           /\ hasKey(out, constVfatSafeKey) <=> ums.opts.vfatSafe # def.vfatSafe
           /\ hasKey(out, constAsciiOnlyKey) <=> ums.opts.asciiOnly # def.asciiOnly
           /\ hasKey(out, constIgnoreTheKey) <=> ums.opts.ignoreThe # def.ignoreThe
           /\ hasKey(out, constReplaceSpacesKey)
                 <=> ums.opts.replaceSpaces # def.replaceSpaces
           /\ hasKey(out, constCollectionNameKey)
                 <=> (ums.opts.name # <<>> /\ ums.opts.name # ums.defaultName)

folderLines(lines) ==
    SelectSeq(lines, LAMBDA line : startsWithKey(line, constMusicFolderKey))
\* The folder an audio_folder line names, under the mount root.
configuredFolder(line) == cleanPath(<<MountRoot, "/">> \o section(line))
\* The first standard folder the medium has, or the mount root.
detectedFolder ==
    IF "Music" \in disk.dirs THEN <<MountRoot, "/", "Music", "/">>
    ELSE IF "MUSIC" \in disk.dirs THEN <<MountRoot, "/", "MUSIC", "/">>
    ELSE IF "Albums" \in disk.dirs THEN <<MountRoot, "/", "Albums", "/">>
    ELSE IF "ALBUMS" \in disk.dirs THEN <<MountRoot, "/", "ALBUMS", "/">>
    ELSE <<MountRoot, "/">>
setupHasRun ==
    last.op \in {"UmsDevice", "connectionStateChanged"} /\ isConnectedUms(disk)

keyLines(lines, key) == SelectSeq(lines, LAMBDA line : startsWithKey(line, key))
\* The value a settings file gives to key: that of its last line for the key,
\* or the default when it has none.
valueOf(lines, key, default) ==
    IF hasKey(lines, key)
    THEN section(keyLines(lines, key)[Len(keyLines(lines, key))])
    ELSE default
nameOrDefault(name) == IF name = <<>> THEN ums.defaultName ELSE name

\* C13: after a saveProperties call that is not the no-op case (the settings
\* file being writable), the device is configured and the folder and options
\* it holds are those the .is_audio_player file and the secondary Cantata
\* settings file hold.
C13_SavePropertiesPersists ==
    (last.op = "saveProperties" /\ ~last.noop /\ last.canOpen)
    => LET lines == disk.settings.lines
       IN  /\ ums.configured
           /\ disk.settings.exists
           /\ hasKey(lines, constMusicFolderKey)
           /\ cleanPath(disk.path \o valueOf(lines, constMusicFolderKey, <<>>))
                 = ums.audioFolder
           /\ valueOf(lines, constMusicFilenameSchemeKey, def.scheme) = ums.opts.scheme
           /\ valueOf(lines, constVfatSafeKey, toString(def.vfatSafe))
                 = toString(ums.opts.vfatSafe)
           /\ valueOf(lines, constAsciiOnlyKey, toString(def.asciiOnly))
                 = toString(ums.opts.asciiOnly)
           /\ valueOf(lines, constIgnoreTheKey, toString(def.ignoreThe))
                 = toString(ums.opts.ignoreThe)
           /\ valueOf(lines, constReplaceSpacesKey, toString(def.replaceSpaces))
                 = toString(ums.opts.replaceSpaces)
           /\ valueOf(lines, constCollectionNameKey, ums.defaultName)
                 = nameOrDefault(ums.opts.name)
           /\ IF disk.cantata.exists
              THEN /\ disk.cantata.coverName = ums.opts.coverName
                   /\ disk.cantata.autoScan = ums.opts.autoScan
                   /\ disk.cantata.useCache = ums.opts.useCache
              ELSE /\ ums.opts.coverName = constDefCoverFileName
                   /\ ums.opts.autoScan = def.autoScan
                   /\ ums.opts.useCache = def.useCache


\* C16: getDevice gives the value of the dev query item for a cdda URL that
\* has one, "-" for a cdda URL without it, "/dev/<name>" for a non-cdda URL
\* whose path starts with /run/user/ and holds /gvfs/cdda:host=<name>, and the
\* empty string for every other URL.
hasMarker(path) == \E pos \in 0..Len(path) : occursAt(path, marker, pos)
C16_GetDevice ==
    last.op = "getDevice" =>
        LET url == last.url
            r   == last.result
            dev == {i \in 1..Len(url.query) : url.query[i].key = "dev"}
        IN  IF url.scheme = "cdda" /\ dev # {}
            THEN \E i \in dev : r = url.query[i].value
            ELSE IF url.scheme = "cdda"
            THEN r = <<"-">>
            ELSE IF startsWith(url.path, RunUser) /\ hasMarker(url.path)
            THEN \E pos \in 0..Len(url.path) :
                    /\ occursAt(url.path, marker, pos)
                    /\ r = <<"/", "dev", "/">>
                             \o SubSeq(url.path, pos + Len(marker) + 1, Len(url.path))
                    /\ ~hasMarker(SubSeq(url.path, pos + Len(marker) + 1, Len(url.path)))
            ELSE r = <<>>

C16_Witness ==
    /\ last.op = "getDevice"
    /\ last.url.scheme = "file"
    /\ last.url.path = GvfsDir \o <<"sr1">>
    /\ last.result = <<"/", "dev", "/", "sr1">>


\* C19: a disconnected UMS device answers usedCapacity() with -1,
\* capacityString() with "Not Connected" and freeSpace() with 0; the cache
\* progress or the status string is the answer only on a connected device
\* whose cache is being read.
C19_DisconnectedCapacity ==
    /\ ~isConnectedUms(disk) =>
          /\ last.op = "usedCapacity" => last.result = <<-1, 1>>
          /\ last.op = "capacityString" => last.result = <<"Not Connected">>
          /\ last.op = "freeSpace" => last.result = 0
    /\ (last.op = "usedCapacity" /\ last.result \in {<<pc, 100>> : pc \in Progress}) =>
          isConnectedUms(disk) /\ ums.cacheJob
    /\ (last.op = "capacityString"
          /\ last.result \in {<<"Reading cache", pc>> : pc \in Progress}) =>
          isConnectedUms(disk) /\ ums.cacheJob


occurrences(lines, line) == Cardinality({i \in 1..Len(lines) : lines[i] = line})

\* C23: however often setup() has run on the settings file (at construction
\* and at each connectionStateChanged), the preserved list is the file's
\* unrecognised lines, and a saveOptions() writes each of them as many times
\* as the file held it.
C23_SetupIdempotent ==
    /\ (setupHasRun /\ disk.settings.exists)
       => ums.unusedParams = unrecognised(disk.settings.lines)
    /\ (last.op = "saveOptions" /\ last.wrote)
       => \A i \in 1..Len(last.read) :
             ~recognised(last.read[i]) =>
                 occurrences(disk.settings.lines, last.read[i])
                     = occurrences(last.read, last.read[i])
====
